---- MODULE Spec2Model ----
(***************************************************************************)
(* Model of src/main.py (branch-report): the piece-aware line wrapper,     *)
(* the branch classifier, the date formatter and the control flow of       *)
(* main().  Strings are sequences of one-character strings.                *)
(***************************************************************************)
EXTENDS Integers, Sequences, FiniteSets, TLC

(***************************************************************************)
(* Bounds                                                                  *)
(***************************************************************************)
MaxPieces == 3
MaxWidth == 4
MaxRemote == 3
MaxLocal == 2
MaxTs == 2

(***************************************************************************)
(* Generic sequence helpers                                                *)
(***************************************************************************)
SeqsUpTo(S, n) == UNION {[1..k -> S] : k \in 0..n}

Range(s) == {s[k] : k \in 1..Len(s)}

NoDup(s) == \A a, b \in 1..Len(s) : s[a] = s[b] => a = b

RECURSIVE Concat(_)
Concat(ss) == IF ss = <<>> THEN <<>> ELSE Head(ss) \o Concat(Tail(ss))

EndsWith(s, t) ==
  Len(s) >= Len(t) /\ SubSeq(s, Len(s) - Len(t) + 1, Len(s)) = t

(***************************************************************************)
(* Characters and Python's str.lstrip / rstrip / strip                     *)
(***************************************************************************)
ESC == "ESC"

IsSpace(c) == c = " "

RECURSIVE lstrip(_)
lstrip(s) == IF s # <<>> /\ IsSpace(Head(s)) THEN lstrip(Tail(s)) ELSE s

RECURSIVE rstrip(_)
rstrip(s) ==
  IF s # <<>> /\ IsSpace(s[Len(s)]) THEN rstrip(SubSeq(s, 1, Len(s) - 1)) ELSE s

strip(s) == lstrip(rstrip(s))

(***************************************************************************)
(* strip_ansi_len: len(re.sub(r"\x1b\[[0-9;]*m", "", s))                   *)
(***************************************************************************)
AnsiParamChars == {"0", "1", "2", "3", "4", "5", "6", "7", "8", "9", ";"}

RECURSIVE SkipParams(_, _)
SkipParams(s, j) ==
  IF j <= Len(s) /\ s[j] \in AnsiParamChars THEN SkipParams(s, j + 1) ELSE j

\* index of the final "m" of a style sequence starting at i, 0 if none starts there
AnsiMatchEnd(s, i) ==
  IF i + 1 <= Len(s) /\ s[i] = ESC /\ s[i + 1] = "["
  THEN LET j == SkipParams(s, i + 2)
       IN IF j <= Len(s) /\ s[j] = "m" THEN j ELSE 0
  ELSE 0

RECURSIVE VisibleFrom(_, _)
VisibleFrom(s, i) ==
  IF i > Len(s) THEN 0
  ELSE LET e == AnsiMatchEnd(s, i)
       IN IF e # 0 THEN VisibleFrom(s, e + 1) ELSE 1 + VisibleFrom(s, i + 1)

strip_ansi_len(s) == VisibleFrom(s, 1)

(***************************************************************************)
(* Inputs of wrap_pieces                                                   *)
(***************************************************************************)
TokEmpty == <<>>
TokSep == <<" ", " ">>
TokA == <<"a">>
TokAbc == <<"a", "b", "c">>
TokLead == <<" ", "d">>
TokColored == <<ESC, "[", "1", "m", "e", "f", ESC, "[", "0", "m">>

TokenSet == {TokEmpty, TokSep, TokA, TokAbc, TokLead, TokColored}

PrefixNone == <<>>
PrefixFirst == <<" ", " ">>
PrefixNext == <<" ", " ", " ", " ">>

PrefixSet == {PrefixNone, PrefixFirst, PrefixNext}

VARIABLES
  pieces, width, first_prefix, next_prefix,   \* arguments of wrap_pieces
  idx,        \* position of the for loop: index of the next piece
  cur,        \* the accumulator
  lines,      \* the emitted lines
  curToks,    \* history: indices of the pieces appended to cur
  curPfx,     \* history: the prefix cur was seeded with
  lineToks,   \* history: for each emitted line, the indices of its pieces
  linePfx,    \* history: for each emitted line, the prefix it was seeded with
  wpc         \* "idle", "loop", "done"

wrapVars == <<pieces, width, first_prefix, next_prefix, idx, cur, lines,
              curToks, curPfx, lineToks, linePfx, wpc>>

WrapIdle ==
  /\ pieces = <<>> /\ width = 0 /\ first_prefix = <<>> /\ next_prefix = <<>>
  /\ idx = 0 /\ cur = <<>> /\ lines = <<>>
  /\ curToks = <<>> /\ curPfx = <<>> /\ lineToks = <<>> /\ linePfx = <<>>
  /\ wpc = "idle"

\* line 149: the candidate is accepted
WrapAcceptsLenient(c, piece, w, fp) ==
  strip_ansi_len(c \o piece) <= w \/ strip_ansi_len(c) <= strip_ansi_len(fp) + 1

WrapAccepts(c, piece, w, fp) ==
  strip_ansi_len(c \o piece) <= w \/ strip_ansi_len(c) <= strip_ansi_len(fp)

\* lines 154, 159, 163: the text a closed line is emitted with
CloseLine(c) == rstrip(c)

\* line 155: the accumulator a rejected piece starts
StartLineDropsPiece(np, piece) == np

StartLine(np, piece) == np \o lstrip(piece)

\* lines 139-140
WrapInit ==
  /\ pieces \in SeqsUpTo(TokenSet, MaxPieces)
  /\ width \in 1..MaxWidth
  /\ first_prefix \in PrefixSet
  /\ next_prefix \in PrefixSet
  /\ idx = 1
  /\ cur = first_prefix
  /\ lines = <<>>
  /\ curToks = <<>> /\ curPfx = first_prefix
  /\ lineToks = <<>> /\ linePfx = <<>>
  /\ wpc = "loop"

\* lines 143-144
WrapSkipEmpty ==
  /\ wpc = "loop" /\ idx <= Len(pieces)
  /\ pieces[idx] = <<>>
  /\ idx' = idx + 1
  /\ UNCHANGED <<pieces, width, first_prefix, next_prefix, cur, lines,
                 curToks, curPfx, lineToks, linePfx, wpc>>

\* lines 148-151
WrapExtend ==
  /\ wpc = "loop" /\ idx <= Len(pieces)
  /\ pieces[idx] # <<>>
  /\ WrapAccepts(cur, pieces[idx], width, first_prefix)
  /\ cur' = cur \o pieces[idx]
  /\ curToks' = Append(curToks, idx)
  /\ idx' = idx + 1
  /\ UNCHANGED <<pieces, width, first_prefix, next_prefix, lines,
                 curPfx, lineToks, linePfx, wpc>>

\* lines 153-160
WrapNewLine ==
  /\ wpc = "loop" /\ idx <= Len(pieces)
  /\ pieces[idx] # <<>>
  /\ ~WrapAccepts(cur, pieces[idx], width, first_prefix)
  /\ LET started == StartLine(next_prefix, pieces[idx])
         closed == Append(lines, CloseLine(cur))
         closedToks == Append(lineToks, curToks)
         closedPfx == Append(linePfx, curPfx)
     IN IF strip_ansi_len(started) > width
        THEN /\ lines' = Append(closed, CloseLine(started))
             /\ lineToks' = Append(closedToks, <<idx>>)
             /\ linePfx' = Append(closedPfx, next_prefix)
             /\ cur' = next_prefix
             /\ curToks' = <<>>
        ELSE /\ lines' = closed
             /\ lineToks' = closedToks
             /\ linePfx' = closedPfx
             /\ cur' = started
             /\ curToks' = <<idx>>
  /\ curPfx' = next_prefix
  /\ idx' = idx + 1
  /\ UNCHANGED <<pieces, width, first_prefix, next_prefix, wpc>>

\* lines 162-165
WrapReturn ==
  /\ wpc = "loop" /\ idx > Len(pieces)
  /\ IF strip(cur) # <<>>
     THEN /\ lines' = Append(lines, CloseLine(cur))
          /\ lineToks' = Append(lineToks, curToks)
          /\ linePfx' = Append(linePfx, curPfx)
     ELSE UNCHANGED <<lines, lineToks, linePfx>>
  /\ wpc' = "done"
  /\ UNCHANGED <<pieces, width, first_prefix, next_prefix, idx, cur,
                 curToks, curPfx>>

(***************************************************************************)
(* local_branches_not_on_any_remote                                        *)
(***************************************************************************)
NameOM == <<"o", "/", "m">>
NameUM == <<"u", "/", "m">>
NameOD == <<"o", "/", "d">>
NameOFM == <<"o", "/", "f", "/", "m">>
NameOHead == <<"o", "/", "H", "E", "A", "D">>
NameO == <<"o">>
NameM == <<"m">>
NameD == <<"d">>
NameFM == <<"f", "/", "m">>
NameX == <<"x">>
BlankLine == <<>>

HasSlash(r) == \E k \in 1..Len(r) : r[k] = "/"

RECURSIVE FirstSlash(_, _)
FirstSlash(r, k) ==
  IF k > Len(r) THEN 0 ELSE IF r[k] = "/" THEN k ELSE FirstSlash(r, k + 1)

RECURSIVE LastSlash(_, _)
LastSlash(r, k) ==
  IF k < 1 THEN 0 ELSE IF r[k] = "/" THEN k ELSE LastSlash(r, k - 1)

\* r.rsplit("/", 1)[1]
LeafAfterLastSlash(r) == SubSeq(r, LastSlash(r, Len(r)) + 1, Len(r))

\* line 204: r.split("/", 1)[1]
Leaf(r) == SubSeq(r, FirstSlash(r, 1) + 1, Len(r))

\* line 204
remote_leaf_names(remotes) ==
  {Leaf(remotes[k]) : k \in {j \in 1..Len(remotes) : HasSlash(remotes[j])}}

\* lines 198-205
local_branches_not_on_any_remote(locals, remotes) ==
  SelectSeq(locals, LAMBDA l : l \notin remote_leaf_names(remotes))

VARIABLES
  local_shorts, remote_shorts,   \* arguments of the classifier
  local_only,                    \* its result
  cpc                            \* "idle", "call", "done"

classVars == <<local_shorts, remote_shorts, local_only, cpc>>

ClassIdle ==
  /\ local_shorts = <<>> /\ remote_shorts = <<>> /\ local_only = <<>>
  /\ cpc = "idle"

ClassLocalNames == {NameM, NameD, NameFM, NameX}

ClassRemoteNames == {NameOM, NameUM, NameOD, NameOFM, NameO}

ClassInit ==
  /\ local_shorts \in SeqsUpTo(ClassLocalNames, MaxLocal)
  /\ remote_shorts \in SeqsUpTo(ClassRemoteNames, MaxRemote)
  /\ local_only = <<>>
  /\ cpc = "call"

\* lines 198-205
Classify ==
  /\ cpc = "call"
  /\ local_only' = local_branches_not_on_any_remote(local_shorts, remote_shorts)
  /\ cpc' = "done"
  /\ UNCHANGED <<local_shorts, remote_shorts>>

(***************************************************************************)
(* format_date                                                             *)
(***************************************************************************)
MonthAbbr ==
  <<"Jan", "Feb", "Mar", "Apr", "May", "Jun",
    "Jul", "Aug", "Sep", "Oct", "Nov", "Dec">>

IsLeap(y) == (y % 4 = 0 /\ y % 100 # 0) \/ y % 400 = 0

DaysIn(y, m) ==
  IF m = 2 THEN (IF IsLeap(y) THEN 29 ELSE 28)
  ELSE IF m \in {4, 6, 9, 11} THEN 30 ELSE 31

\* line 171, the dictionary lookup {1: 'st', 2: 'nd', 3: 'rd'}.get(day % 10, 'th')
SuffixByLastDigit(day) ==
  CASE day % 10 = 1 -> "st"
    [] day % 10 = 2 -> "nd"
    [] day % 10 = 3 -> "rd"
    [] OTHER -> "th"

\* line 171 without the test for 11..13
OrdinalNoTeens(day) == SuffixByLastDigit(day)

\* line 171
Ordinal(day) == IF 11 <= day /\ day <= 13 THEN "th" ELSE SuffixByLastDigit(day)

\* line 177: int(offset.total_seconds() / 3600) truncates toward zero
OffsetHours(seconds) ==
  IF seconds >= 0 THEN seconds \div 3600 ELSE -((-seconds) \div 3600)

\* line 174: strftime('%I')
Hour12(h) == IF h % 12 = 0 THEN 12 ELSE h % 12

\* lines 168-181
format_date(dt) ==
  [month |-> MonthAbbr[dt.month] \o ".",
   day |-> dt.day,
   ordinal |-> Ordinal(dt.day),
   year |-> dt.year,
   hour |-> Hour12(dt.hour),
   ampm |-> IF dt.hour < 12 THEN "AM" ELSE "PM",
   tz |-> IF ~dt.offset.aware
          THEN [gmt |-> "GMT", signed |-> FALSE, hours |-> 0]
          ELSE [gmt |-> "GMT", signed |-> TRUE,
                hours |-> OffsetHours(dt.offset.seconds)]]

VARIABLES
  dt,         \* argument of format_date
  formatted,  \* its result
  dpc         \* "idle", "call", "done"

dateVars == <<dt, formatted, dpc>>

NoDate ==
  [year |-> 0, month |-> 0, day |-> 0, hour |-> 0,
   offset |-> [aware |-> FALSE, seconds |-> 0]]

NoText ==
  [month |-> <<>>, day |-> 0, ordinal |-> "", year |-> 0, hour |-> 0,
   ampm |-> "", tz |-> [gmt |-> "", signed |-> FALSE, hours |-> 0]]

DateIdle == dt = NoDate /\ formatted = NoText /\ dpc = "idle"

DateYears == {2023, 2024}

DateHours == {0, 11, 12, 13, 23}

DateOffsets ==
  {[aware |-> FALSE, seconds |-> 0]}
    \cup {[aware |-> TRUE, seconds |-> x] : x \in {-19800, -3600, 0, 3600, 5400}}

DateInit ==
  /\ dt \in {d \in [year : DateYears, month : 1..12, day : 1..31,
                    hour : DateHours, offset : DateOffsets] :
               d.day <= DaysIn(d.year, d.month)}
  /\ formatted = NoText
  /\ dpc = "call"

\* lines 168-181
FormatDate ==
  /\ dpc = "call"
  /\ formatted' = format_date(dt)
  /\ dpc' = "done"
  /\ UNCHANGED dt

(***************************************************************************)
(* main(): the run of the report                                           *)
(***************************************************************************)
\* what "git log -1 --format=%H%x00%cn%x00%cd%x00%s --date=iso-strict" can
\* answer: a non-zero return code, an output of other than four fields, a date
\* field datetime.fromisoformat rejects, or a commit with its instant
GitLogOutputs ==
  {[rc |-> 1, nparts |-> 0, date_ok |-> FALSE, ts |-> 0],
   [rc |-> 0, nparts |-> 1, date_ok |-> FALSE, ts |-> 0],
   [rc |-> 0, nparts |-> 4, date_ok |-> FALSE, ts |-> 0]}
    \cup {[rc |-> 0, nparts |-> 4, date_ok |-> TRUE, ts |-> t] : t \in 1..MaxTs}

\* lines 44-51 and 89-100: the outcome of get_latest_commit on a git answer
get_latest_commit(o) ==
  IF o.rc # 0 THEN [res |-> "RuntimeError", ts |-> 0]
  ELSE IF o.nparts # 4 THEN [res |-> "RuntimeError", ts |-> 0]
  ELSE IF ~o.date_ok THEN [res |-> "ValueError", ts |-> 0]
  ELSE [res |-> "ok", ts |-> o.ts]

\* lines 74 and 85: the stripped, non-blank lines of a listing
NonBlankLines(out) ==
  LET kept == SelectSeq(out, LAMBDA l : strip(l) # <<>>)
  IN [k \in 1..Len(kept) |-> strip(kept[k])]

\* lines 73-76
list_remote_branches(out) ==
  SelectSeq(NonBlankLines(out), LAMBDA r : ~EndsWith(r, <<"/", "H", "E", "A", "D">>))

\* lines 84-86
list_local_branches(out) == NonBlankLines(out)

RECURSIVE InsertBeforeEqual(_, _)
InsertBeforeEqual(sorted, b) ==
  IF sorted = <<>> THEN <<b>>
  ELSE IF Head(sorted).ts > b.ts
       THEN <<Head(sorted)>> \o InsertBeforeEqual(Tail(sorted), b)
       ELSE <<b>> \o sorted

\* the place list.sort(key=commit_date, reverse=True) gives b among records
\* sorted before it: after every record that is as new or newer
RECURSIVE InsertDesc(_, _)
InsertDesc(sorted, b) ==
  IF sorted = <<>> THEN <<b>>
  ELSE IF Head(sorted).ts >= b.ts
       THEN <<Head(sorted)>> \o InsertDesc(Tail(sorted), b)
       ELSE <<b>> \o sorted

\* lines 251-252: infos.sort(key=lambda b: b.commit_date, reverse=True)
RECURSIVE SortByDateDesc(_)
SortByDateDesc(infos) ==
  IF infos = <<>> THEN <<>>
  ELSE InsertDesc(SortByDateDesc(SubSeq(infos, 1, Len(infos) - 1)),
                  infos[Len(infos)])

Entry(kind, name, ts) == [kind |-> kind, name |-> name, ts |-> ts]

\* lines 255-258
Header == <<Entry("title", <<>>, 0), Entry("rule", <<>>, 0), Entry("blank", <<>>, 0)>>

\* lines 260-294: a record's wrapped lines are one entry here
print_section(label, infos) ==
  <<Entry(label, <<>>, 0)>>
    \o (IF infos = <<>>
        THEN <<Entry("none", <<>>, 0)>>
        ELSE [k \in 1..Len(infos) |-> Entry("record", infos[k].name, infos[k].ts)])
    \o <<Entry("blank", <<>>, 0)>>

\* the diagnostic of line 221 written to standard output
ReportFetchErrorOnStdout(streams) ==
  [out |-> Append(streams.out, "Error fetching remotes:"), err |-> streams.err]

\* line 221: print(..., file=sys.stderr)
ReportFetchError(streams) ==
  [out |-> streams.out, err |-> Append(streams.err, "Error fetching remotes:")]

VARIABLES
  mpc,          \* position in main
  calls,        \* the git commands run so far, with how each ended
  remote_refs, local_refs,
  ri, li,       \* positions of the two loops over the refs
  remote_infos, local_only_infos,
  local_only_short_names,
  stdout, stderr,
  exit_code     \* -1 while the process runs

mainVars == <<mpc, calls, remote_refs, local_refs, ri, li, remote_infos,
              local_only_infos, local_only_short_names, stdout, stderr,
              exit_code>>

MainIdle ==
  /\ mpc = "idle" /\ calls = <<>> /\ remote_refs = <<>> /\ local_refs = <<>>
  /\ ri = 0 /\ li = 0 /\ remote_infos = <<>> /\ local_only_infos = <<>>
  /\ local_only_short_names = {} /\ stdout = <<>> /\ stderr = <<>>
  /\ exit_code = -1

Call(cmd, ref, res) == [cmd |-> cmd, ref |-> ref, res |-> res]

RemoteListingLines == {NameOM, NameUM, NameOHead, NameO, BlankLine}

LocalListingLines == {NameM, NameD, BlankLine}

Listings(S, n) == {l \in SeqsUpTo(S, n) : NoDup(l)}

\* the process ends on an exception nothing catches, or on SystemExit(text)
Die(message) ==
  /\ stderr' = Append(stderr, message)
  /\ exit_code' = 1
  /\ mpc' = "exited"

MainInit ==
  /\ mpc = "ensure_git_repo" /\ calls = <<>>
  /\ remote_refs = <<>> /\ local_refs = <<>>
  /\ ri = 0 /\ li = 0 /\ remote_infos = <<>> /\ local_only_infos = <<>>
  /\ local_only_short_names = {} /\ stdout = <<>> /\ stderr = <<>>
  /\ exit_code = -1

\* lines 54-60 and 215
EnsureGitRepo ==
  /\ mpc = "ensure_git_repo"
  /\ \E answer \in {"true", "false", "failed"} :
       /\ calls' = Append(calls, Call("rev-parse", <<>>, answer))
       /\ IF answer = "failed"
          THEN Die("Not a git repository (or git not available).")
          ELSE IF answer # "true"
               THEN Die("Not inside a git work tree.")
               ELSE mpc' = "fetch" /\ UNCHANGED <<stderr, exit_code>>
  /\ UNCHANGED <<remote_refs, local_refs, ri, li, remote_infos,
                 local_only_infos, local_only_short_names, stdout>>

\* lines 218-222
FetchAllRemotes ==
  /\ mpc = "fetch"
  /\ \E answer \in {"ok", "RuntimeError"} :
       /\ calls' = Append(calls, Call("fetch", <<>>, answer))
       /\ IF answer = "RuntimeError"
          THEN LET streams == ReportFetchError([out |-> stdout, err |-> stderr])
               IN /\ stdout' = streams.out
                  /\ stderr' = streams.err
                  /\ exit_code' = 2
                  /\ mpc' = "exited"
          ELSE mpc' = "list_remote" /\ UNCHANGED <<stdout, stderr, exit_code>>
  /\ UNCHANGED <<remote_refs, local_refs, ri, li, remote_infos,
                 local_only_infos, local_only_short_names>>

\* line 227
ListRemoteBranches ==
  /\ mpc = "list_remote"
  /\ \/ /\ calls' = Append(calls, Call("for-each-ref", <<>>, "RuntimeError"))
        /\ Die("Traceback: RuntimeError")
        /\ UNCHANGED remote_refs
     \/ \E out \in Listings(RemoteListingLines, MaxRemote) :
          /\ calls' = Append(calls, Call("for-each-ref", <<>>, "ok"))
          /\ remote_refs' = list_remote_branches(out)
          /\ mpc' = "list_local"
          /\ UNCHANGED <<stderr, exit_code>>
  /\ UNCHANGED <<local_refs, ri, li, remote_infos, local_only_infos,
                 local_only_short_names, stdout>>

\* line 228
ListLocalBranches ==
  /\ mpc = "list_local"
  /\ \/ /\ calls' = Append(calls, Call("for-each-ref", <<>>, "RuntimeError"))
        /\ Die("Traceback: RuntimeError")
        /\ UNCHANGED <<local_refs, ri>>
     \/ \E out \in Listings(LocalListingLines, MaxLocal) :
          /\ calls' = Append(calls, Call("for-each-ref", <<>>, "ok"))
          /\ local_refs' = list_local_branches(out)
          /\ ri' = 1
          /\ mpc' = "remote_loop"
          /\ UNCHANGED <<stderr, exit_code>>
  /\ UNCHANGED <<remote_refs, li, remote_infos, local_only_infos,
                 local_only_short_names, stdout>>

\* lines 231-235: one iteration of the loop over the remote refs
BuildRemoteInfo ==
  /\ mpc = "remote_loop" /\ ri <= Len(remote_refs)
  /\ \E o \in GitLogOutputs :
       LET got == get_latest_commit(o)
           short == remote_refs[ri]
       IN /\ calls' = Append(calls, Call("log", <<"remote", short>>, got.res))
          /\ IF got.res = "ok"
             THEN /\ remote_infos' =
                       Append(remote_infos, [name |-> short, ts |-> got.ts])
                  /\ ri' = ri + 1
                  /\ UNCHANGED <<mpc, stderr, exit_code>>
             ELSE IF got.res = "RuntimeError"
                  THEN /\ ri' = ri + 1
                       /\ UNCHANGED <<remote_infos, mpc, stderr, exit_code>>
                  ELSE /\ Die("Traceback: ValueError")
                       /\ UNCHANGED <<remote_infos, ri>>
  /\ UNCHANGED <<remote_refs, local_refs, li, local_only_infos,
                 local_only_short_names, stdout>>

\* lines 238-239
ClassifyLocals ==
  /\ mpc = "remote_loop" /\ ri > Len(remote_refs)
  /\ local_only_short_names' =
       Range(local_branches_not_on_any_remote(local_refs, remote_refs))
  /\ li' = 1
  /\ mpc' = "local_loop"
  /\ UNCHANGED <<calls, remote_refs, local_refs, ri, remote_infos,
                 local_only_infos, stdout, stderr, exit_code>>

\* lines 243-244
SkipTrackedLocal ==
  /\ mpc = "local_loop" /\ li <= Len(local_refs)
  /\ local_refs[li] \notin local_only_short_names
  /\ li' = li + 1
  /\ UNCHANGED <<mpc, calls, remote_refs, local_refs, ri, remote_infos,
                 local_only_infos, local_only_short_names, stdout, stderr,
                 exit_code>>

\* lines 245-248
BuildLocalInfo ==
  /\ mpc = "local_loop" /\ li <= Len(local_refs)
  /\ local_refs[li] \in local_only_short_names
  /\ \E o \in GitLogOutputs :
       LET got == get_latest_commit(o)
           short == local_refs[li]
       IN /\ calls' = Append(calls, Call("log", <<"local", short>>, got.res))
          /\ IF got.res = "ok"
             THEN /\ local_only_infos' =
                       Append(local_only_infos, [name |-> short, ts |-> got.ts])
                  /\ li' = li + 1
                  /\ UNCHANGED <<mpc, stderr, exit_code>>
             ELSE IF got.res = "RuntimeError"
                  THEN /\ li' = li + 1
                       /\ UNCHANGED <<local_only_infos, mpc, stderr, exit_code>>
                  ELSE /\ Die("Traceback: ValueError")
                       /\ UNCHANGED <<local_only_infos, li>>
  /\ UNCHANGED <<remote_refs, local_refs, ri, remote_infos,
                 local_only_short_names, stdout>>

\* lines 250-299
PrintReport ==
  /\ mpc = "local_loop" /\ li > Len(local_refs)
  /\ remote_infos' = SortByDateDesc(remote_infos)
  /\ local_only_infos' = SortByDateDesc(local_only_infos)
  /\ stdout' = stdout \o Header
                 \o print_section("Remote branches", remote_infos')
                 \o print_section("Local branches (no corresponding remote)",
                                  local_only_infos')
  /\ exit_code' = 0
  /\ mpc' = "exited"
  /\ UNCHANGED <<calls, remote_refs, local_refs, ri, li,
                 local_only_short_names, stderr>>

vars == <<wrapVars, classVars, dateVars, mainVars>>

Init == MainInit /\ WrapIdle /\ ClassIdle /\ DateIdle

Next ==
  \/ EnsureGitRepo /\ UNCHANGED <<wrapVars, classVars, dateVars>>
  \/ FetchAllRemotes /\ UNCHANGED <<wrapVars, classVars, dateVars>>
  \/ ListRemoteBranches /\ UNCHANGED <<wrapVars, classVars, dateVars>>
  \/ ListLocalBranches /\ UNCHANGED <<wrapVars, classVars, dateVars>>
  \/ BuildRemoteInfo /\ UNCHANGED <<wrapVars, classVars, dateVars>>
  \/ ClassifyLocals /\ UNCHANGED <<wrapVars, classVars, dateVars>>
  \/ SkipTrackedLocal /\ UNCHANGED <<wrapVars, classVars, dateVars>>
  \/ BuildLocalInfo /\ UNCHANGED <<wrapVars, classVars, dateVars>>
  \/ PrintReport /\ UNCHANGED <<wrapVars, classVars, dateVars>>

Spec == Init /\ [][Next]_vars


InitWrap == WrapInit /\ ClassIdle /\ DateIdle /\ MainIdle

NextWrap ==
  \/ WrapSkipEmpty /\ UNCHANGED <<classVars, dateVars, mainVars>>
  \/ WrapExtend /\ UNCHANGED <<classVars, dateVars, mainVars>>
  \/ WrapNewLine /\ UNCHANGED <<classVars, dateVars, mainVars>>
  \/ WrapReturn /\ UNCHANGED <<classVars, dateVars, mainVars>>

SpecWrap == InitWrap /\ [][NextWrap]_vars

InitClassify == ClassInit /\ WrapIdle /\ DateIdle /\ MainIdle

NextClassify == Classify /\ UNCHANGED <<wrapVars, dateVars, mainVars>>

SpecClassify == InitClassify /\ [][NextClassify]_vars

InitDate == DateInit /\ WrapIdle /\ ClassIdle /\ MainIdle

NextDate == FormatDate /\ UNCHANGED <<wrapVars, classVars, mainVars>>

SpecDate == InitDate /\ [][NextDate]_vars

(***************************************************************************)
(* Properties of wrap_pieces                                               *)
(***************************************************************************)
NoSpace(s) == SelectSeq(s, LAMBDA c : ~IsSpace(c))

PiecesOf(toks) == Concat([k \in 1..Len(toks) |-> pieces[toks[k]]])

\* the pieces of a line whose first piece lost its leading whitespace
PiecesOfStripped(toks) ==
  IF toks = <<>> THEN <<>>
  ELSE lstrip(pieces[Head(toks)]) \o PiecesOf(Tail(toks))

\* a line's text with the prefix it was seeded with removed
LineContent(k) ==
  LET t == lines[k]
      p == linePfx[k]
  IN IF Len(t) >= Len(p) /\ SubSeq(t, 1, Len(p)) = p
     THEN SubSeq(t, Len(p) + 1, Len(t))
     ELSE <<>>

Placed == Concat(lineToks)

LongerPrefixLen ==
  IF strip_ansi_len(first_prefix) >= strip_ansi_len(next_prefix)
  THEN strip_ansi_len(first_prefix)
  ELSE strip_ansi_len(next_prefix)

\* C1 (as stated): for width >= 1, the contents of the emitted lines,
\* prefixes removed, concatenated in order are exactly the tokens concatenated
\* in input order.
C1_LinesReproduceTokens ==
  (wpc = "done" /\ width >= 1) =>
    Concat([k \in 1..Len(lines) |-> LineContent(k)]) = Concat(pieces)

\* C1 (amended): for width >= 1, every emitted line is its prefix followed by
\* whole tokens, except that leading whitespace of the token that starts a
\* continuation line and trailing whitespace of the line are removed; the tokens
\* placed on lines are in input order, none twice, and every token holding a
\* non-whitespace character is placed.
C1_LinesReproduceTokensModuloTrim ==
  (wpc = "done" /\ width >= 1) =>
    /\ \A k \in 1..Len(lines) :
         \/ lines[k] = rstrip(linePfx[k] \o PiecesOf(lineToks[k]))
         \/ lines[k] = rstrip(linePfx[k] \o PiecesOfStripped(lineToks[k]))
    /\ \A a, b \in 1..Len(Placed) : a < b => Placed[a] < Placed[b]
    /\ \A j \in 1..Len(pieces) :
         NoSpace(pieces[j]) # <<>> => \E a \in 1..Len(Placed) : Placed[a] = j

\* C1 witness: a finished run that wrapped onto a second line and dropped
\* whitespace, so that the lines differ from the tokens
C1_Witness ==
  /\ wpc = "done" /\ width >= 1
  /\ Len(lines) >= 2
  /\ Concat([k \in 1..Len(lines) |-> LineContent(k)]) # Concat(pieces)
  /\ \E k \in 1..Len(lines) : Len(lineToks[k]) >= 2

LastTokenLen(k) ==
  IF lineToks[k] = <<>> THEN 0
  ELSE strip_ansi_len(pieces[lineToks[k][Len(lineToks[k])]])

C9_EveryLineHoldsAToken ==
  \A k \in 1..Len(lines) : lineToks[k] # <<>>

(***************************************************************************)
(* Properties of local_branches_not_on_any_remote                          *)
(***************************************************************************)
\* r is <remote>/<l> with no "/" in <remote>
IsLeafOf(l, r) ==
  \E k \in 1..Len(r) :
    /\ r[k] = "/"
    /\ \A j \in 1..(k - 1) : r[j] # "/"
    /\ l = SubSeq(r, k + 1, Len(r))

PublishedAsLeaf(l) == \E k \in 1..Len(remote_shorts) : IsLeafOf(l, remote_shorts[k])

C8_ExcludedIffSomeRemoteEndsWithSlashName ==
  cpc = "done" =>
    local_only =
      SelectSeq(local_shorts,
                LAMBDA l : ~\E k \in 1..Len(remote_shorts) :
                              EndsWith(remote_shorts[k], <<"/">> \o l))

(***************************************************************************)
(* Properties of format_date                                               *)
(***************************************************************************)
\* the suffix of every day of a month, written out
OrdinalTable(day) ==
  IF day \in {1, 21, 31} THEN "st"
  ELSE IF day \in {2, 22} THEN "nd"
  ELSE IF day \in {3, 23} THEN "rd"
  ELSE "th"

\* C7: the ordinal suffix of a formatted day 1..31 is "th" for 11, 12 and 13
\* and otherwise follows the last digit: 1 -> "st", 2 -> "nd", 3 -> "rd",
\* any other digit -> "th".
C7_OrdinalSuffix ==
  dpc = "done" =>
    /\ formatted.day = dt.day
    /\ formatted.ordinal = OrdinalTable(dt.day)
    /\ dt.day \in {11, 12, 13} => formatted.ordinal = "th"

\* C7 witness: a date on the 11th, 12th or 13th has been formatted
C7_Witness ==
  /\ dpc = "done"
  /\ dt.day \in {11, 12, 13}
  /\ formatted.ordinal = "th"

(***************************************************************************)
(* Properties of main()                                                    *)
(***************************************************************************)
RemoteLabel == "Remote branches"

LocalLabel == "Local branches (no corresponding remote)"

LabelAt(label) == CHOOSE j \in 1..Len(stdout) : stdout[j].kind = label

Reported == mpc = "exited" /\ exit_code = 0

\* the records printed in the remote section and in the local-only section
RemoteSection ==
  SelectSeq(SubSeq(stdout, LabelAt(RemoteLabel), LabelAt(LocalLabel)),
            LAMBDA e : e.kind = "record")

LocalSection ==
  SelectSeq(SubSeq(stdout, LabelAt(LocalLabel), Len(stdout)),
            LAMBDA e : e.kind = "record")

TimesPrinted(section, name) ==
  Cardinality({j \in 1..Len(section) : section[j].name = name})

QueryFailed == \E k \in 1..Len(calls) : calls[k].cmd = "log" /\ calls[k].res # "ok"

\* C4 (as stated): when the tip-commit query of a ref fails, in whatever way,
\* the run still ends with exit code 0, the refs whose query failed are absent
\* from their section and every ref whose query succeeded is printed exactly
\* once in its section.
C4_QueryFailureNeverAborts ==
  (mpc = "exited" /\ QueryFailed) =>
    /\ exit_code = 0
    /\ \A k \in 1..Len(calls) :
         calls[k].cmd = "log" =>
           LET section == IF calls[k].ref[1] = "remote" THEN RemoteSection
                          ELSE LocalSection
           IN TimesPrinted(section, calls[k].ref[2])
                = (IF calls[k].res = "ok" THEN 1 ELSE 0)

\* C5: a run that ends with a non-zero exit code has written nothing to
\* standard output; a failed repository check ends the run with a non-zero
\* code before the refresh or any other git command is run; a failed refresh
\* ends it with exit code 2, its diagnostic on standard error alone, and no
\* listing or query run; exit code 0 comes only with both sections printed.
C5_FatalFailuresWriteNothing ==
  /\ (mpc = "exited" /\ exit_code # 0) => stdout = <<>>
  /\ mpc # "exited" => (exit_code = -1 /\ stdout = <<>>)
  /\ (calls # <<>> /\ calls[1].res # "true") =>
       /\ mpc = "exited" /\ exit_code \notin {0, -1}
       /\ stdout = <<>>
       /\ Len(calls) = 1
  /\ (\E k \in 1..Len(calls) : calls[k].cmd = "fetch" /\ calls[k].res # "ok") =>
       /\ mpc = "exited" /\ exit_code = 2
       /\ stdout = <<>>
       /\ stderr = <<"Error fetching remotes:">>
       /\ Len(calls) = 2
  /\ exit_code = 0 =>
       /\ mpc = "exited"
       /\ \E a, b \in 1..Len(stdout) :
            a < b /\ stdout[a].kind = RemoteLabel /\ stdout[b].kind = LocalLabel

\* C5 witness: the refresh failed and the run ended with exit code 2
C5_Witness ==
  /\ mpc = "exited"
  /\ Len(calls) = 2 /\ calls[2].cmd = "fetch" /\ calls[2].res = "RuntimeError"
  /\ exit_code = 2

Position(refs, name) == CHOOSE k \in 1..Len(refs) : refs[k] = name

NewestFirstStable(section, refs) ==
  \A a, b \in 1..Len(section) :
    a < b =>
      \/ section[a].ts > section[b].ts
      \/ /\ section[a].ts = section[b].ts
         /\ Position(refs, section[a].name) < Position(refs, section[b].name)

\* C6: in each section the records are printed newest first, and records with
\* equal timestamps are printed in the order the adapter enumerated their refs.
C6_SectionsNewestFirstStable ==
  Reported =>
    /\ NewestFirstStable(RemoteSection, remote_refs)
    /\ NewestFirstStable(LocalSection, local_refs)
    /\ Len(RemoteSection) = Len(remote_infos)
    /\ Len(LocalSection) = Len(local_only_infos)

\* C6 witness: a printed section holds two records of equal timestamp and a
\* newer record that was enumerated after one of them
C6_Witness ==
  /\ Reported
  /\ \E a, b, c \in 1..Len(RemoteSection) :
       /\ a < b /\ b < c
       /\ RemoteSection[a].ts > RemoteSection[b].ts
       /\ RemoteSection[b].ts = RemoteSection[c].ts
       /\ Position(remote_refs, RemoteSection[a].name)
            > Position(remote_refs, RemoteSection[b].name)

HasRemoteAndLeaf(r) ==
  /\ \E k \in 2..(Len(r) - 1) : r[k] = "/"
  /\ ~EndsWith(r, <<"/", "H", "E", "A", "D">>)

\* C10 (as stated): every remote short name list_remote_branches returns,
\* every name queried as a remote ref and every record of the remote section
\* has the form <remote>/<leaf> and is no symbolic HEAD entry.
C10_RemoteNamesHaveRemoteAndLeaf ==
  /\ \A k \in 1..Len(remote_refs) : HasRemoteAndLeaf(remote_refs[k])
  /\ Reported =>
       \A k \in 1..Len(RemoteSection) : HasRemoteAndLeaf(RemoteSection[k].name)

====
